---- MODULE Spec2Model ----
(***************************************************************************)
(* Model of favicon-generator (favigen): the converter module              *)
(* (crop_to_square, convert_to_ico, generate_app_icons_bundle) and the     *)
(* click command-line entry point main.                                    *)
(*                                                                         *)
(* One behaviour is one run: either a direct call of one of the two        *)
(* converter functions (entry = "api") or one invocation of the command    *)
(* line (entry = "cli"), which calls the converter.  Paths are sequences   *)
(* of one-character strings so that pathlib's suffix handling is computed, *)
(* not assumed.                                                            *)
(***************************************************************************)
EXTENDS Integers, Sequences, FiniteSets, TLC

\* Small image dimensions 1..MaxDim are enumerated next to the dimensions
\* that straddle the icon sizes (see Dims).
MaxDim == 2

(***************************************************************************)
(* Strings as character sequences; pathlib.PurePath and str operations.    *)
(***************************************************************************)
Upper == <<"A","B","C","D","E","F","G","H","I","J","K","L","M",
           "N","O","P","Q","R","S","T","U","V","W","X","Y","Z">>
LowerLetters == <<"a","b","c","d","e","f","g","h","i","j","k","l","m",
                  "n","o","p","q","r","s","t","u","v","w","x","y","z">>

\* str.lower() on one character
LowerChar(c) ==
    IF \E k \in 1..Len(Upper) : Upper[k] = c
    THEN LowerLetters[CHOOSE k \in 1..Len(Upper) : Upper[k] = c]
    ELSE c

\* str.lower()
Lower(s) == [k \in 1..Len(s) |-> LowerChar(s[k])]

\* str.endswith(suf)
EndsWith(s, suf) ==
    /\ Len(suf) <= Len(s)
    /\ SubSeq(s, Len(s) - Len(suf) + 1, Len(s)) = suf

\* str.removesuffix(suf)
RemoveSuffix(s, suf) ==
    IF suf # <<>> /\ EndsWith(s, suf)
    THEN SubSeq(s, 1, Len(s) - Len(suf))
    ELSE s

\* index of the last occurrence of character c in s, 0 when absent (rfind + 1)
LastIndexOf(s, c) ==
    IF \E k \in 1..Len(s) : s[k] = c
    THEN CHOOSE k \in 1..Len(s) : s[k] = c /\ \A m \in (k+1)..Len(s) : s[m] # c
    ELSE 0

\* PurePath.name of a normalised path: the final component; "." has no name
Name(p) ==
    IF p = <<".">> THEN <<>>
    ELSE SubSeq(p, LastIndexOf(p, "/") + 1, Len(p))

\* PurePath.suffix: the part of the name from its last dot, provided the dot
\* is neither the first nor the last character of the name
Suffix(p) ==
    LET name == Name(p)
        d    == LastIndexOf(name, ".")
    IN  IF 1 < d /\ d < Len(name) THEN SubSeq(name, d, Len(name)) ELSE <<>>

\* marker for the ValueError raised by with_suffix on a path with empty name
EmptyName == <<"!">>

\* PurePath.with_suffix(suffix)
WithSuffix(p, suffix) ==
    IF Name(p) = <<>> THEN EmptyName
    ELSE SubSeq(p, 1, Len(p) - Len(Suffix(p))) \o suffix

\* PurePath.parent / child, for a normalised relative path
ParentJoin(p, child) ==
    LET s == LastIndexOf(p, "/")
    IN  IF s = 0 THEN child ELSE SubSeq(p, 1, s) \o child

DotIco   == <<".","i","c","o">>
DotTar   == <<".","t","a","r">>
DotGz    == <<".","g","z">>
DotTarGz == DotTar \o DotGz

\* supported_formats
supported_formats ==
    { <<".","j","p","g">>, <<".","j","p","e","g">>,
      <<".","p","n","g">>, <<".","w","e","b","p">> }


\* the extension compared as written, without lower-casing
IsSupportedCaseSensitive(p) == Suffix(p) \in supported_formats

\* the check `input_path.suffix.lower() not in supported_formats`
IsSupported(p) == Lower(Suffix(p)) \in supported_formats

\* the two checks in the other order
InputErrorFormatFirst(p, exists) ==
    IF ~IsSupported(p) THEN "ValueError"
    ELSE IF ~exists THEN "FileNotFoundError"
    ELSE "none"

\* `if not input_path.exists(): raise FileNotFoundError`, then
\* `if input_path.suffix.lower() not in supported_formats: raise ValueError`
InputError(p, exists) ==
    IF ~exists THEN "FileNotFoundError"
    ELSE IF ~IsSupported(p) THEN "ValueError"
    ELSE "none"

\* convert_to_ico: `if output_path.suffix.lower() != ".ico": with_suffix(".ico")`
ForceIco(p) ==
    IF Lower(Suffix(p)) # DotIco THEN WithSuffix(p, DotIco) ELSE p

\* generate_app_icons_bundle:
\* `if not output_path.suffix == ".gz": with_suffix(".tar.gz")`
ForceTarGz(p) ==
    IF ~(Suffix(p) = DotGz) THEN WithSuffix(p, DotTarGz) ELSE p

\* main, --app-icons with -o: append ".tar.gz" unless already there,
\* dropping a trailing ".tar" first
CliBundleOutput(output) ==
    IF ~EndsWith(output, DotTarGz)
    THEN RemoveSuffix(output, DotTar) \o DotTarGz
    ELSE output

(***************************************************************************)
(* Images.  An image is its size, its colour mode and the region of the    *)
(* decoded source it shows (box = <<left, top, right, bottom>>).           *)
(***************************************************************************)
NoImage == [size |-> <<0, 0>>, mode |-> "none", box |-> <<0, 0, 0, 0>>]

Decoded(w, h, m) == [size |-> <<w, h>>, mode |-> m, box |-> <<0, 0, w, h>>]

Min(a, b) == IF a <= b THEN a ELSE b
Max(a, b) == IF a >= b THEN a ELSE b

\* Image.crop((left, top, right, bottom)): the result has size
\* (right - left, bottom - top)
Crop(image, b) ==
    [image EXCEPT !.size = <<b[3] - b[1], b[4] - b[2]>>,
                  !.box  = <<image.box[1] + b[1], image.box[2] + b[2],
                             image.box[1] + b[3], image.box[2] + b[4]>>]

\* a slip in the crop arithmetic: the right edge is taken from the width
crop_to_square_wide(image) ==
    LET width  == image.size[1]
        height == image.size[2]
    IN  IF width = height THEN image
        ELSE LET size == Min(width, height)
                 left == (width - size) \div 2
                 top  == (height - size) \div 2
             IN  Crop(image, <<left, top, width, top + size>>)

crop_to_square(image) ==
    LET width  == image.size[1]
        height == image.size[2]
    IN  IF width = height THEN image
        ELSE LET size   == Min(width, height)
                 left   == (width - size) \div 2
                 top    == (height - size) \div 2
                 right  == left + size
                 bottom == top + size
             IN  Crop(image, <<left, top, right, bottom>>)

\* `if img.mode not in ("RGB", "RGBA"): img = img.convert("RGBA")`
NeedsConvert(image) == image.mode \notin {"RGB", "RGBA"}

\* Image.resize((w, h)): exactly the requested size, whatever the source
Resize(image, size) == [image EXCEPT !.size = size]

\* Image.thumbnail(size) inside the ICO encoder: shrink to fit within
\* x by y keeping the aspect ratio, each side rounded to the nearer integer
\* (down on a tie) and at least 1
ThumbnailSize(w, h, x, y) ==
    IF x >= w /\ y >= h THEN <<w, h>>
    ELSE IF x * h >= w * y
    THEN LET q == (y * w) \div h
             r == (y * w) % h
         IN  <<Max(IF r <= h - r THEN q ELSE q + 1, 1), y>>
    ELSE LET q == (x * h) \div w
             r == (x * h) % w
         IN  <<x, Max(IF r = 0 \/ q = 0 \/ r * (q + 1) <= (w - r) * q
                      THEN q ELSE q + 1, 1)>>

\* img.save(path, format="ICO", sizes=sizes): the encoder skips every
\* requested size larger than the image (or than 256) and writes, for each
\* remaining one, a frame made by thumbnail(); the directory of the file
\* declares the frames' sizes
IcoFrameSizes(image, sizes) ==
    LET w == image.size[1]
        h == image.size[2]
        kept == { s \in sizes : ~(s[1] > w \/ s[2] > h \/ s[1] > 256 \/ s[2] > 256) }
    IN  { ThumbnailSize(w, h, s[1], s[2]) : s \in kept }

\* convert_to_ico: sizes
ico_sizes_single == { <<16,16>>, <<32,32>>, <<48,48>>, <<64,64>>, <<128,128>>, <<256,256>> }
\* generate_app_icons_bundle: ico_sizes
ico_sizes_bundle == { <<16,16>>, <<32,32>>, <<48,48>> }

\* the list with the Microsoft tile entry lost
APP_ICON_SIZES_short ==
    << <<16, 16, "favicon-16x16.png">>,
       <<32, 32, "favicon-32x32.png">>,
       <<48, 48, "favicon-48x48.png">>,
       <<180, 180, "apple-touch-icon.png">>,
       <<192, 192, "android-chrome-192x192.png">>,
       <<512, 512, "android-chrome-512x512.png">> >>

APP_ICON_SIZES ==
    << <<16, 16, "favicon-16x16.png">>,
       <<32, 32, "favicon-32x32.png">>,
       <<48, 48, "favicon-48x48.png">>,
       <<180, 180, "apple-touch-icon.png">>,
       <<192, 192, "android-chrome-192x192.png">>,
       <<512, 512, "android-chrome-512x512.png">>,
       <<150, 150, "mstile-150x150.png">> >>

\* sorted(tmp.iterdir()): file names in code-point order (upper case first)
NameOrder ==
    << "README.md", "android-chrome-192x192.png", "android-chrome-512x512.png",
       "apple-touch-icon.png", "browserconfig.xml", "favicon-16x16.png",
       "favicon-32x32.png", "favicon-48x48.png", "favicon.ico",
       "mstile-150x150.png", "site.webmanifest" >>

Sorted(files) == SelectSeq(NameOrder, LAMBDA n : n \in files)

\* arcname=f"app-icons/{file.name}"
ArcName(name) == <<"app-icons", name>>

(***************************************************************************)
(* The run.                                                                *)
(***************************************************************************)
VARIABLES
    entry,            \* "api": a converter function is called directly; "cli": main
    op,               \* "ico": convert_to_ico; "bundle": generate_app_icons_bundle
    input_path,       \* the input path argument
    input_exists,     \* whether a file exists at input_path
    output,           \* the output argument (api) or the -o option (cli, <<>> when absent)
    crop_square,      \* the crop flag
    pc,               \* position of the run
    exc,              \* the exception propagating out of the converter, or "none"
    failed_at,        \* the position at which exc was raised, or "none"
    cli_output_path,  \* main's local output_path
    output_path,      \* the converter's local output_path
    img,              \* the converter's local img
    decode_attempted, \* Image.open has been called
    tmp_exists,       \* the temporary directory exists
    tmp_made,         \* a temporary directory has been created during the run
    tmp_files,        \* names of the files in the temporary directory
    png_sizes,        \* <<width, height, filename>> of every PNG saved
    ico_sizes,        \* sizes declared by the icon file written
    out_file,         \* path of the output file created, or NoFile
    archive,          \* arcnames added to the archive, in order
    i,                \* loop index (PNG loop, archive loop)
    printed,          \* path shown in the "Successfully created" message
    err_msg,          \* an error message was written to the error stream
    exit_code         \* exit status of the process, -1 while running

vars == << entry, op, input_path, input_exists, output, crop_square, pc, exc,
           failed_at, cli_output_path, output_path, img, decode_attempted,
           tmp_exists, tmp_made, tmp_files, png_sizes, ico_sizes, out_file,
           archive, i, printed, err_msg, exit_code >>

NoFile == <<>>
NoOutput == <<>>

\* input paths tried: supported extensions in several letter cases, unsupported
\* ones, no extension, and a dot-file whose whole name looks like an extension
InputPaths ==
    { <<"a",".","p","n","g">>,
      <<"a",".","P","N","G">>,
      <<"d","/","a",".","J","p","e","g">>,
      <<"a",".","g","i","f">>,
      <<"a",".","B","M","P">>,
      <<"a">>,
      <<".","p","n","g">> }

\* output paths tried
OutputPaths ==
    { <<"o">> \o e : e \in { <<>>, DotIco, <<".","I","C","O">>, <<".","p","n","g">>,
                             DotTarGz, DotTar, DotGz, <<".","G","Z">>,
                             <<".","z","i","p">> } }

\* image dimensions tried: tiny ones, one between the icon sizes, one above all
Dims == (1..MaxDim) \cup {20, 300}

Modes == {"RGB", "RGBA", "P"}

Init ==
    /\ entry \in {"api", "cli"}
    /\ op \in {"ico", "bundle"}
    /\ input_path \in InputPaths
    /\ input_exists \in BOOLEAN
    /\ output \in IF entry = "cli" THEN OutputPaths \cup {NoOutput}
                  ELSE OutputPaths \cup {<<".">>}
    /\ crop_square \in BOOLEAN
    /\ pc = IF entry = "cli" THEN "click" ELSE "validate"
    /\ exc = "none"
    /\ failed_at = "none"
    /\ cli_output_path = NoFile
    /\ output_path = IF entry = "cli" THEN NoFile ELSE output
    /\ img = NoImage
    /\ decode_attempted = FALSE
    /\ tmp_exists = FALSE
    /\ tmp_made = FALSE
    /\ tmp_files = {}
    /\ png_sizes = {}
    /\ ico_sizes = {}
    /\ out_file = NoFile
    /\ archive = <<>>
    /\ i = 0
    /\ printed = NoFile
    /\ err_msg = FALSE
    /\ exit_code = -1

inputs == << entry, op, input_path, input_exists, output, crop_square >>
cli_vars == << cli_output_path, printed, err_msg, exit_code >>
tmp_vars == << tmp_exists, tmp_made, tmp_files >>
out_vars == << out_file, archive, ico_sizes, png_sizes >>

\* an exception leaves the function at once, without releasing the directory
UnwindLeak == "raised"

\* where an exception raised now goes: through the exit of
\* `with tempfile.TemporaryDirectory()` when inside it, else out of the function
Unwind == IF tmp_exists THEN "cleanup" ELSE "raised"

Raise(e) ==
    /\ exc' = e
    /\ failed_at' = pc
    /\ pc' = Unwind

(***************************************************************************)
(* cli.py: main                                                            *)
(***************************************************************************)
\* click.Path(exists=True) on INPUT_FILE: a missing file is a usage error,
\* reported on the error stream with exit status 2, before main's body runs
ClickValidateArgs ==
    /\ pc = "click"
    /\ IF input_exists
       THEN /\ pc' = "main"
            /\ UNCHANGED << err_msg, exit_code >>
       ELSE /\ pc' = "exited"
            /\ err_msg' = TRUE
            /\ exit_code' = 2
    /\ UNCHANGED << inputs, exc, failed_at, cli_output_path, output_path, img,
                    decode_attempted, tmp_vars, out_vars, i, printed >>

\* main: the output path, then the call of the converter
MainOutputPath ==
    /\ pc = "main"
    /\ cli_output_path' =
         IF op = "bundle"
         THEN IF output # NoOutput THEN CliBundleOutput(output)
              ELSE ParentJoin(input_path, <<"a","p","p","-","i","c","o","n","s">> \o DotTarGz)
         ELSE IF output # NoOutput THEN output
              ELSE WithSuffix(input_path, DotIco)
    /\ output_path' = cli_output_path'
    /\ pc' = "validate"
    /\ UNCHANGED << inputs, exc, failed_at, img, decode_attempted, tmp_vars,
                    out_vars, i, printed, err_msg, exit_code >>

\* main: the converter returned
MainSuccess ==
    /\ entry = "cli"
    /\ pc = "returned"
    /\ printed' = cli_output_path
    /\ exit_code' = 0
    /\ pc' = "exited"
    /\ UNCHANGED << inputs, exc, failed_at, cli_output_path, output_path, img,
                    decode_attempted, tmp_vars, out_vars, i, err_msg >>

\* main: the except clauses (FileNotFoundError, ValueError, Exception)
MainExcept ==
    /\ entry = "cli"
    /\ pc = "raised"
    /\ err_msg' = TRUE
    /\ exit_code' = 1
    /\ pc' = "exited"
    /\ UNCHANGED << inputs, exc, failed_at, cli_output_path, output_path, img,
                    decode_attempted, tmp_vars, out_vars, i, printed >>

(***************************************************************************)
(* converter.py: convert_to_ico and generate_app_icons_bundle              *)
(***************************************************************************)
\* existence check, then extension check
ValidateInput ==
    /\ pc = "validate"
    /\ LET e == InputError(input_path, input_exists)
       IN  IF e = "none"
           THEN pc' = "fix_output" /\ UNCHANGED << exc, failed_at >>
           ELSE Raise(e)
    /\ UNCHANGED << inputs, cli_vars, output_path, img, decode_attempted,
                    tmp_vars, out_vars, i >>

\* the output extension is forced; with_suffix raises ValueError on a path
\* without a name
FixOutput ==
    /\ pc = "fix_output"
    /\ LET fixed == IF op = "ico" THEN ForceIco(output_path)
                    ELSE ForceTarGz(output_path)
       IN  IF fixed = EmptyName
           THEN Raise("ValueError") /\ UNCHANGED output_path
           ELSE /\ output_path' = fixed
                /\ pc' = IF op = "ico" THEN "open_image" ELSE "mktemp"
                /\ UNCHANGED << exc, failed_at >>
    /\ UNCHANGED << inputs, cli_vars, img, decode_attempted, tmp_vars,
                    out_vars, i >>

\* a variant that opens the archive for writing as soon as the directory is
\* there, before any file has been generated
MkTempOpensArchive ==
    /\ pc = "mktemp"
    /\ \E ok \in BOOLEAN :
         IF ok
         THEN /\ tmp_exists' = TRUE
              /\ tmp_made' = TRUE
              /\ out_file' = output_path
              /\ pc' = "open_image"
              /\ UNCHANGED << exc, failed_at >>
         ELSE /\ Raise("OSError")
              /\ UNCHANGED << tmp_exists, tmp_made, out_file >>
    /\ UNCHANGED << inputs, cli_vars, output_path, img, decode_attempted,
                    tmp_files, archive, ico_sizes, png_sizes, i >>

\* `with tempfile.TemporaryDirectory() as tmp_dir`: entry
MkTemp ==
    /\ pc = "mktemp"
    /\ \E ok \in BOOLEAN :
         IF ok
         THEN /\ tmp_exists' = TRUE
              /\ tmp_made' = TRUE
              /\ pc' = "open_image"
              /\ UNCHANGED << exc, failed_at >>
         ELSE /\ Raise("OSError")
              /\ UNCHANGED << tmp_exists, tmp_made >>
    /\ UNCHANGED << inputs, cli_vars, output_path, img, decode_attempted,
                    tmp_files, out_vars, i >>

\* `with Image.open(input_path) as img`: the file holds some image, or the
\* decode fails
OpenImage ==
    /\ pc = "open_image"
    /\ decode_attempted' = TRUE
    /\ \/ /\ \E w \in Dims, h \in Dims, m \in Modes : img' = Decoded(w, h, m)
          /\ pc' = "normalise"
          /\ UNCHANGED << exc, failed_at >>
       \/ /\ Raise("OSError")
          /\ UNCHANGED img
    /\ UNCHANGED << inputs, cli_vars, output_path, tmp_vars, out_vars, i >>

\* colour mode normalisation
Normalise ==
    /\ pc = "normalise"
    /\ IF NeedsConvert(img)
       THEN \/ /\ img' = [img EXCEPT !.mode = "RGBA"]
               /\ pc' = "crop"
               /\ UNCHANGED << exc, failed_at >>
            \/ /\ Raise("OSError")
               /\ UNCHANGED img
       ELSE /\ pc' = "crop"
            /\ UNCHANGED << img, exc, failed_at >>
    /\ UNCHANGED << inputs, cli_vars, output_path, decode_attempted, tmp_vars,
                    out_vars, i >>

\* `if crop_square: img = crop_to_square(img)`
CropStep ==
    /\ pc = "crop"
    /\ img' = IF crop_square THEN crop_to_square(img) ELSE img
    /\ pc' = "save_ico"
    /\ UNCHANGED << inputs, cli_vars, exc, failed_at, output_path,
                    decode_attempted, tmp_vars, out_vars, i >>

\* convert_to_ico: img.save(output_path, format="ICO", sizes=sizes); a failed
\* save may or may not leave a file behind
SaveIcoSingle ==
    /\ pc = "save_ico"
    /\ op = "ico"
    /\ \/ /\ out_file' = output_path
          /\ ico_sizes' = IcoFrameSizes(img, ico_sizes_single)
          /\ img' = NoImage
          /\ pc' = "returned"
          /\ UNCHANGED << exc, failed_at >>
       \/ /\ Raise("OSError")
          /\ out_file' \in {NoFile, output_path}
          /\ img' = NoImage
          /\ UNCHANGED ico_sizes
    /\ UNCHANGED << inputs, cli_vars, output_path, decode_attempted, tmp_vars,
                    archive, png_sizes, i >>

\* generate_app_icons_bundle: img.save(tmp / "favicon.ico", format="ICO", ...)
SaveIcoBundle ==
    /\ pc = "save_ico"
    /\ op = "bundle"
    /\ \/ /\ tmp_files' = tmp_files \cup {"favicon.ico"}
          /\ ico_sizes' = IcoFrameSizes(img, ico_sizes_bundle)
          /\ i' = 1
          /\ pc' = "save_png"
          /\ UNCHANGED << exc, failed_at, img >>
       \/ /\ Raise("OSError")
          /\ img' = NoImage
          /\ UNCHANGED << tmp_files, ico_sizes, i >>
    /\ UNCHANGED << inputs, cli_vars, output_path, decode_attempted,
                    tmp_exists, tmp_made, out_file, archive, png_sizes >>

\* one round of `for width, height, filename in APP_ICON_SIZES`; the image is
\* closed when the loop is left
SavePng ==
    /\ pc = "save_png"
    /\ LET width    == APP_ICON_SIZES[i][1]
           height   == APP_ICON_SIZES[i][2]
           filename == APP_ICON_SIZES[i][3]
           resized  == Resize(img, <<width, height>>)
           last     == i = Len(APP_ICON_SIZES)
       IN  \/ /\ tmp_files' = tmp_files \cup {filename}
              /\ png_sizes' = png_sizes \cup
                                {<<resized.size[1], resized.size[2], filename>>}
              /\ i' = IF last THEN 0 ELSE i + 1
              /\ img' = IF last THEN NoImage ELSE img
              /\ pc' = IF last THEN "write_manifest" ELSE "save_png"
              /\ UNCHANGED << exc, failed_at >>
           \/ /\ Raise("OSError")
              /\ img' = NoImage
              /\ i' = 0
              /\ UNCHANGED << tmp_files, png_sizes >>
    /\ UNCHANGED << inputs, cli_vars, output_path, decode_attempted,
                    tmp_exists, tmp_made, out_file, archive, ico_sizes >>

\* Path.write_text of one of the three text files
WriteText(at, filename, next) ==
    /\ pc = at
    /\ \/ /\ tmp_files' = tmp_files \cup {filename}
          /\ pc' = next
          /\ UNCHANGED << exc, failed_at >>
       \/ /\ Raise("OSError")
          /\ UNCHANGED tmp_files
    /\ UNCHANGED << inputs, cli_vars, output_path, img, decode_attempted,
                    tmp_exists, tmp_made, out_vars, i >>

WriteManifest == WriteText("write_manifest", "site.webmanifest", "write_browserconfig")

WriteBrowserconfig == WriteText("write_browserconfig", "browserconfig.xml", "write_readme")

WriteReadme == WriteText("write_readme", "README.md", "open_archive")

\* `with tarfile.open(output_path, "w:gz") as tar`: the output file is created;
\* a failed open may or may not leave a file behind
OpenArchive ==
    /\ pc = "open_archive"
    /\ \/ /\ out_file' = output_path
          /\ archive' = <<>>
          /\ i' = 1
          /\ pc' = "add_files"
          /\ UNCHANGED << exc, failed_at >>
       \/ /\ Raise("OSError")
          /\ out_file' \in {NoFile, output_path}
          /\ UNCHANGED << archive, i >>
    /\ UNCHANGED << inputs, cli_vars, output_path, img, decode_attempted,
                    tmp_vars, ico_sizes, png_sizes >>

\* one round of `for file in sorted(tmp.iterdir()): tar.add(...)`; after the
\* last one the archive is closed and the with-block of the directory is left
AddFile ==
    /\ pc = "add_files"
    /\ LET files == Sorted(tmp_files)
           last  == i >= Len(files)
       IN  \/ /\ archive' = IF i <= Len(files)
                            THEN Append(archive, ArcName(files[i]))
                            ELSE archive
              /\ i' = IF last THEN 0 ELSE i + 1
              /\ pc' = IF last THEN "cleanup" ELSE "add_files"
              /\ UNCHANGED << exc, failed_at >>
           \/ /\ Raise("OSError")
              /\ i' = 0
              /\ UNCHANGED archive
    /\ UNCHANGED << inputs, cli_vars, output_path, img, decode_attempted,
                    tmp_vars, out_file, ico_sizes, png_sizes >>

\* exit of `with tempfile.TemporaryDirectory()`: the directory and its files
\* are removed, then the function returns or the exception goes on
Cleanup ==
    /\ pc = "cleanup"
    /\ tmp_exists' = FALSE
    /\ tmp_files' = {}
    /\ pc' = IF exc = "none" THEN "returned" ELSE "raised"
    /\ UNCHANGED << inputs, cli_vars, exc, failed_at, output_path, img,
                    decode_attempted, tmp_made, out_vars, i >>

Next ==
    \/ ClickValidateArgs
    \/ MainOutputPath
    \/ MainSuccess
    \/ MainExcept
    \/ ValidateInput
    \/ FixOutput
    \/ MkTemp
    \/ OpenImage
    \/ Normalise
    \/ CropStep
    \/ SaveIcoSingle
    \/ SaveIcoBundle
    \/ SavePng
    \/ WriteManifest
    \/ WriteBrowserconfig
    \/ WriteReadme
    \/ OpenArchive
    \/ AddFile
    \/ Cleanup

Spec == Init /\ [][Next]_vars

(***************************************************************************)
(* Properties                                                              *)
(***************************************************************************)
\* the converter function has been left, normally or by an exception
ConverterLeft == pc \in {"returned", "raised"} \/ (pc = "exited" /\ exit_code # 2)

ConverterSucceeded == ConverterLeft /\ exc = "none"

BundleNames ==
    { "favicon.ico", "favicon-16x16.png", "favicon-32x32.png", "favicon-48x48.png",
      "apple-touch-icon.png", "android-chrome-192x192.png",
      "android-chrome-512x512.png", "mstile-150x150.png",
      "site.webmanifest", "browserconfig.xml", "README.md" }

\* C1: crop_to_square returns a square image itself, unchanged, and turns any
\* other image into a square whose side is the smaller of the image's width
\* and height.
C1_CropToSquare ==
    [][ (pc = "crop" /\ crop_square) =>
          LET w == img.size[1]
              h == img.size[2]
          IN  IF w = h THEN img' = img
              ELSE /\ img'.size[1] = img'.size[2]
                   /\ img'.size[1] <= w /\ img'.size[1] <= h
                   /\ img'.size[1] \in {w, h} ]_vars

\* a 300 x 20 source has been cropped to its central 20 x 20 region
C1_Witness ==
    /\ pc = "save_ico"
    /\ crop_square
    /\ img.size = <<20, 20>>
    /\ img.box = <<140, 0, 160, 20>>

\* C2: in both converter functions a missing input path fails with
\* FileNotFoundError, raised by the existence check whatever the extension is,
\* and nothing is decoded, no temporary directory is made and no output file
\* is written.
C2_MissingInputFirst ==
    (entry = "api" /\ ~input_exists /\ pc # "validate") =>
        /\ pc = "raised"
        /\ exc = "FileNotFoundError"
        /\ failed_at = "validate"
        /\ ~decode_attempted
        /\ ~tmp_made
        /\ out_file = NoFile

\* the bundle function was called on a missing path with an unsupported extension
C2_Witness ==
    /\ op = "bundle"
    /\ ~input_exists
    /\ input_path = <<"a",".","g","i","f">>
    /\ pc = "raised"
    /\ exc = "FileNotFoundError"

\* C3: in both converter functions an existing input whose extension, lower-cased,
\* is not .jpg, .jpeg, .png or .webp fails with ValueError before any decode; an
\* extension of that set, in any letter case, passes the extension check.
C3_UnsupportedFormat ==
    (input_exists /\ pc \notin {"click", "main", "validate"}) =>
        IF Lower(Suffix(input_path)) \in
             { <<".","j","p","g">>, <<".","j","p","e","g">>,
               <<".","p","n","g">>, <<".","w","e","b","p">> }
        THEN failed_at # "validate"
        ELSE /\ exc = "ValueError"
             /\ failed_at = "validate"
             /\ ~decode_attempted
             /\ ~tmp_made
             /\ pc \in {"raised", "exited"}

\* an existing a.BMP was rejected by convert_to_ico
C3_Witness ==
    /\ op = "ico"
    /\ input_exists
    /\ input_path = <<"a",".","B","M","P">>
    /\ pc = "raised"
    /\ exc = "ValueError"
    /\ ~decode_attempted

\* C4: after a successful generate_app_icons_bundle the archive holds exactly
\* eleven entries, all under app-icons/, named by the fixed file list, whatever
\* the source dimensions and the crop flag.
C4_BundleEntries ==
    (op = "bundle" /\ ConverterSucceeded) =>
        /\ Len(archive) = 11
        /\ \A k \in 1..Len(archive) :
             /\ Len(archive[k]) = 2
             /\ archive[k][1] = "app-icons"
        /\ { archive[k][2] : k \in 1..Len(archive) } = BundleNames
        /\ Cardinality(BundleNames) = 11

\* a cropped bundle run has returned with its archive written
C4_Witness ==
    /\ op = "bundle"
    /\ crop_square
    /\ pc = "returned"
    /\ exc = "none"
    /\ out_file # NoFile
    /\ Len(archive) = 11

\* C5: after a successful conversion the icon file declares exactly the sizes
\* 16, 32, 48, 64, 128, 256 (convert_to_ico) or 16, 32, 48 (the favicon.ico of
\* the bundle), whatever the source dimensions.
C5_IcoSizes ==
    ConverterSucceeded =>
        ico_sizes = IF op = "ico"
                    THEN { <<16,16>>, <<32,32>>, <<48,48>>,
                           <<64,64>>, <<128,128>>, <<256,256>> }
                    ELSE { <<16,16>>, <<32,32>>, <<48,48>> }

\* C6: the archive of generate_app_icons_bundle is always written to a path
\* ending in ".tar.gz".
C6_ForcedTarGz ==
    (op = "bundle" /\ out_file # NoFile) => EndsWith(out_file, DotTarGz)

\* C7: whenever generate_app_icons_bundle has been left, by return or by an
\* exception raised at any stage, its temporary directory no longer exists.
C7_TmpRemoved ==
    (pc \in {"returned", "raised", "exited"}) => (~tmp_exists /\ tmp_files = {})

\* the call failed while adding files to the archive, with the directory made
C7_Witness ==
    /\ op = "bundle"
    /\ pc = "raised"
    /\ failed_at = "add_files"
    /\ tmp_made
    /\ ~tmp_exists

\* C8: the command line exits with 0 on success and with 1, after an error
\* message, on a missing input, an unsupported format or an unexpected error;
\* it exits with no other code.
C8_ExitCodes ==
    (entry = "cli" /\ pc = "exited") =>
        IF input_exists /\ exc = "none"
        THEN exit_code = 0
        ELSE exit_code = 1 /\ err_msg

\* C9: on every successful run of the command line the path printed in the
\* "Successfully created" message is the path the output file was written to.
C9_PrintedIsWritten ==
    (entry = "cli" /\ pc = "exited" /\ exit_code = 0) => printed = out_file

\* C10: generate_app_icons_bundle creates the archive file only when all eleven
\* intermediate files are in the temporary directory, and a call that fails at
\* any earlier stage leaves no file at the output path.
C10_ArchiveLast ==
    op = "bundle" =>
        /\ (out_file # NoFile /\ tmp_exists) => tmp_files = BundleNames
        /\ (failed_at \notin {"none", "open_archive", "add_files"}) => out_file = NoFile

\* the call failed while saving a PNG and was left without an output file
C10_Witness ==
    /\ op = "bundle"
    /\ failed_at = "save_png"
    /\ pc = "raised"
    /\ tmp_made
    /\ out_file = NoFile

====
